---- MODULE Spec2Model ----
(***************************************************************************)
(* Model of the calendar view of obsidian-full-calendar (src/src/view.ts). *)
(*                                                                         *)
(* The view keeps the event store of a calendar widget in step with the    *)
(* documents of a vault: onOpen builds the store from the configured       *)
(* sources and registers three listeners (metadata "changed", vault        *)
(* "delete", vault "rename"); modifyEvent writes a move/resize made in the *)
(* widget back to the backing document; eventClick opens the document or   *)
(* the edit dialog; onClose destroys the widget.                           *)
(*                                                                         *)
(* Paths and directories are sequences of one-character strings, so that   *)
(* String.prototype.startsWith is computed character by character.         *)
(*                                                                         *)
(* The widget's event store is kept per id, oldest event first: the widget *)
(* accepts several events with one id, and getEventById returns the oldest.*)
(* The widget's own redrawing of a dragged event, and its revert when      *)
(* modifyEvent fails, are not part of the view and are not modelled.       *)
(*                                                                         *)
(* The host delivers vault "delete" and "rename" with the operation, and   *)
(* metadataCache "changed" some time after a document was written.  A      *)
(* notification runs the handlers of every listener attached at that time. *)
(* The codec, the source build, the resolver and the write (crud.ts,       *)
(* frontmatter.ts, calendar.ts) are modelled from the specification.       *)
(***************************************************************************)
EXTENDS Integers, Sequences, FiniteSets, TLC

VARIABLES
    vault,        \* the host's documents: path -> document
    pending,      \* paths whose metadata-cache "changed" notification is due
    calendar,     \* this.calendar: "null" or "Calendar"
    eventStore,   \* the widget's events: id -> events with that id, oldest first
    calendarEl,   \* what the view's container shows: "none", "error", "calendar"
    listeners,    \* number of (changed, delete, rename) listener triples attached
    view,         \* position of onOpen / onClose
    built,        \* onOpen's awaited source-build results (one per local source)
    opens,        \* number of onOpen calls so far
    me,           \* the modifyEvent call in flight
    ops,          \* number of external vault operations so far
    edits,        \* number of modifyEvent and eventClick calls so far
    settings,     \* this.plugin.settings.calendarSources
    recursiveLocal, \* this.plugin.settings.recursiveLocal
    last          \* the notification handled by the last step, if it was one

vars == <<vault, pending, calendar, eventStore, calendarEl, listeners, view,
          built, opens, me, ops, edits, settings, recursiveLocal, last>>

-----------------------------------------------------------------------------
(* Bounds *)

\* external vault operations (write, delete, rename) in one behaviour
MaxOps == 1
\* onOpen calls on the view in one behaviour
MaxOpens == 1
\* calls of the widget's callbacks (modifyEvent, eventClick) in one behaviour
MaxEdits == 1
\* documents whose "changed" notification the metadata cache still owes
MaxPending == 1

-----------------------------------------------------------------------------
(* Paths *)

Slash == "/"
NoPath == << >>

DirE == <<"e">>
DirES == <<"e", "/", "s">>
DirE2 == <<"e", "2">>
DirMissing == <<"m">>

\* the folders of the vault; DirMissing is configured but does not exist
Folders == {DirE, DirES, DirE2}

PathA == <<"e", "/", "a">>
PathB == <<"e", "/", "b">>
PathSA == <<"e", "/", "s", "/", "a">>
PathXA == <<"e", "2", "/", "a">>

Paths == {PathA, PathB, PathSA, PathXA}

\* the ids of the events the user clicks
ClickPaths == {PathA, PathB}

\* String.prototype.startsWith
StartsWith(s, prefix) ==
    /\ Len(prefix) <= Len(s)
    /\ SubSeq(s, 1, Len(prefix)) = prefix

\* index of the last "/" of a path, 0 when there is none
LastSlash(p) ==
    LET idx == {i \in 1..Len(p) : p[i] = Slash}
    IN IF idx = {} THEN 0 ELSE CHOOSE i \in idx : \A j \in idx : j <= i

\* the directory part of a path
getPathPrefix(p) ==
    IF LastSlash(p) = 0 THEN NoPath ELSE SubSeq(p, 1, LastSlash(p) - 1)

\* p is a document of directory d: directly, or in any subdirectory when recursive
InDirectory(p, d, recursive) ==
    IF recursive THEN StartsWith(p, d \o <<Slash>>) ELSE getPathPrefix(p) = d

-----------------------------------------------------------------------------
(* Documents and the metadata codec *)

Titles == {"S", "T"}
Dates == {1, 2}

Absent == [kind |-> "absent"]
NoFrontmatter == [kind |-> "noevent"]
Colors == {"pink"}
\* event metadata without a color key, and with one
EventDoc(t, d) == [kind |-> "event", title |-> t, date |-> d, color |-> ""]
ColoredDoc(t, d, c) == [kind |-> "event", title |-> t, date |-> d, color |-> c]
EventDocs ==
    {EventDoc(t, d) : t \in Titles, d \in Dates}
        \cup {ColoredDoc(t, d, c) : t \in Titles, d \in Dates, c \in Colors}
\* the contents an external edit gives a document
WrittenDocs == {NoFrontmatter, EventDoc("S", 1), EventDoc("S", 2)}
Docs == {Absent, NoFrontmatter} \cup EventDocs

Null == [kind |-> "null"]

\* getEventInputFromFile: the decoded record of a document, Null when the
\* document is missing or does not describe an event
getEventInputFromFile(v, p) ==
    IF v[p].kind = "event"
    THEN [kind |-> "input", id |-> p, title |-> v[p].title, start |-> v[p].date,
          color |-> v[p].color]
    ELSE Null

\* eventApiToFrontmatter: the metadata a widget event is written back as
eventApiToFrontmatter(ev) == EventDoc(ev.title, ev.start)

\* upsertLocalEvent, when it writes: the document's metadata after the write;
\* the keys of the written metadata are set, a color key of the document stays
upsertLocalEvent(doc, frontmatter) ==
    IF doc.kind = "event" THEN [frontmatter EXCEPT !.color = doc.color] ELSE frontmatter

-----------------------------------------------------------------------------
(* Settings *)

Accent == "accent"
Local(dir, color) == [type |-> "local", directory |-> dir, color |-> color]
Gcal(color) == [type |-> "gcal", directory |-> NoPath, color |-> color]

Settings(sources, recursive) ==
    [calendarSources |-> sources, recursiveLocal |-> recursive]

\* the persisted settings the model is checked with
SettingsChoices ==
    { Settings(<<Local(DirE, "red")>>, FALSE),
      Settings(<<Local(DirES, "")>>, FALSE),
      Settings(<<Local(DirE, "red"), Local(DirES, "blue")>>, TRUE),
      Settings(<<Local(DirMissing, "")>>, FALSE),
      Settings(<<Gcal("green"), Local(DirE, "")>>, TRUE) }

\* color || accent
ColorOr(color) == IF color = "" THEN Accent ELSE color

\* Array.prototype.filter
RECURSIVE SelectLocal(_)
SelectLocal(s) ==
    IF s = << >> THEN << >>
    ELSE IF Head(s).type = "local"
         THEN <<Head(s)>> \o SelectLocal(Tail(s))
         ELSE SelectLocal(Tail(s))

-----------------------------------------------------------------------------
(* Source adapter *)

\* getEventSourceFromLocalSource: the events of the documents of the source's
\* directory, Null when the directory does not resolve to a folder
getEventSourceFromLocalSource(v, source, recursive) ==
    IF source.directory \notin Folders
    THEN Null
    ELSE [kind |-> "source",
          events |-> [p \in Paths |->
                        IF InDirectory(p, source.directory, recursive)
                        THEN getEventInputFromFile(v, p)
                        ELSE Null],
          color |-> ColorOr(source.color)]

\* the awaited Promise.all over the local sources of the settings
RECURSIVE BuildAll(_, _, _)
BuildAll(v, locals, recursive) ==
    IF locals = << >> THEN << >>
    ELSE <<getEventSourceFromLocalSource(v, Head(locals), recursive)>>
            \o BuildAll(v, Tail(locals), recursive)

\* .filter((s) => s !== null)
RECURSIVE NonNull(_)
NonNull(s) ==
    IF s = << >> THEN << >>
    ELSE IF Head(s).kind = "null"
         THEN NonNull(Tail(s))
         ELSE <<Head(s)>> \o NonNull(Tail(s))

\* the gcal sources of the settings, mapped to the widget's remote-source shape
RECURSIVE GcalSources(_)
GcalSources(s) ==
    IF s = << >> THEN << >>
    ELSE IF Head(s).type = "gcal"
         THEN <<[kind |-> "gcal", events |-> [p \in Paths |-> Null],
                 color |-> ColorOr(Head(s).color)]>> \o GcalSources(Tail(s))
         ELSE GcalSources(Tail(s))

\* the array handed to renderCalendar
Sources(b) == NonNull(b) \o GcalSources(settings)

\* !sources: an array, empty or not, is an object and never falsy
NotSources(sources) == FALSE

\* the widget event as it would be if the source's color overrode the record's
EventOfSourceColor(input, color) ==
    [id |-> input.id, title |-> input.title, start |-> input.start, color |-> color]

\* the widget event made from a decoded record: { color: ..., ...newEventData },
\* a color key of the record overrides the color given before the spread
EventOf(input, color) ==
    [id |-> input.id, title |-> input.title, start |-> input.start,
     color |-> IF input.color # "" THEN input.color ELSE color]

\* the events with id p that the sources give the widget, in source order
RECURSIVE EventsAt(_, _)
EventsAt(sources, p) ==
    IF sources = << >> THEN << >>
    ELSE IF Head(sources).events[p].kind = "input"
         THEN <<EventOf(Head(sources).events[p], Head(sources).color)>>
                 \o EventsAt(Tail(sources), p)
         ELSE EventsAt(Tail(sources), p)

\* renderCalendar: the event store of the new widget
renderCalendar(sources) == [p \in Paths |-> EventsAt(sources, p)]

EmptyStore == [p \in Paths |-> << >>]

-----------------------------------------------------------------------------
(* The widget's event API *)

\* Calendar.getEventById: the oldest event with that id, if any
HasEventById(store, id) == store[id] # << >>

\* EventApi.remove on the event getEventById returned
RemoveById(store, id) == [store EXCEPT ![id] = Tail(@)]

\* Calendar.addEvent
AddEvent(store, ev) == [store EXCEPT ![ev.id] = Append(@, ev)]

-----------------------------------------------------------------------------
(* Notification handlers *)

\* calendarSources.find((c) => c.type === "local" && file.path.startsWith(c.directory))
RECURSIVE FindCalendar(_, _)
FindCalendar(s, p) ==
    IF s = << >> THEN Null
    ELSE IF Head(s).type = "local" /\ StartsWith(p, Head(s).directory)
         THEN Head(s)
         ELSE FindCalendar(Tail(s), p)

\* onCacheUpdate as it would be if a failed decode removed the event
onCacheUpdateRemoving(cal, store, v, p) ==
    LET calendarSource == FindCalendar(settings, p)
        calendarEvent == cal # "null" /\ HasEventById(store, p)
        newEventData == getEventInputFromFile(v, p)
        removed == IF calendarEvent THEN RemoveById(store, p) ELSE store
    IN IF calendarSource # Null /\ newEventData # Null /\ cal # "null"
       THEN AddEvent(removed, EventOf(newEventData, ColorOr(calendarSource.color)))
       ELSE removed

\* onCacheUpdate(file) with file.path = p, on the vault v; this.calendar is cal
onCacheUpdate(cal, store, v, p) ==
    LET calendarSource == FindCalendar(settings, p)
        calendarEvent == cal # "null" /\ HasEventById(store, p)
        newEventData == getEventInputFromFile(v, p)
    IN IF calendarSource # Null /\ newEventData # Null
       THEN LET removed == IF calendarEvent THEN RemoveById(store, p) ELSE store
            IN IF cal # "null"
               THEN AddEvent(removed, EventOf(newEventData, ColorOr(calendarSource.color)))
               ELSE removed
       ELSE store

\* the vault "delete" listener, for a TFile at path p
onDelete(cal, store, p) ==
    IF cal # "null" /\ HasEventById(store, p) THEN RemoveById(store, p) ELSE store

\* the vault "rename" listener, for a TFile now at newPath
onRename(cal, store, v, newPath, oldPath) ==
    LET removed == IF cal # "null" /\ HasEventById(store, oldPath)
                   THEN RemoveById(store, oldPath)
                   ELSE store
    IN onCacheUpdate(cal, removed, v, newPath)

\* a notification reaches every attached listener, one after the other
RECURSIVE ChangedBy(_, _, _, _, _)
ChangedBy(n, cal, store, v, p) ==
    IF n = 0 THEN store ELSE ChangedBy(n - 1, cal, onCacheUpdate(cal, store, v, p), v, p)

RECURSIVE DeletedBy(_, _, _, _)
DeletedBy(n, cal, store, p) ==
    IF n = 0 THEN store ELSE DeletedBy(n - 1, cal, onDelete(cal, store, p), p)

RECURSIVE RenamedBy(_, _, _, _, _, _)
RenamedBy(n, cal, store, v, newPath, oldPath) ==
    IF n = 0 THEN store
    ELSE RenamedBy(n - 1, cal, onRename(cal, store, v, newPath, oldPath), v, newPath, oldPath)

-----------------------------------------------------------------------------
(* Identity resolver and write-back *)

\* getFileForEvent: the document at the event's id, if there is one
getFileForEvent(v, id) == v[id].kind # "absent"

\* two or more documents of the directory carry the title
Ambiguous(v, dir, title) ==
    Cardinality({q \in Paths : /\ getPathPrefix(q) = dir
                               /\ v[q].kind = "event"
                               /\ v[q].title = title}) >= 2

\* the ways a call of upsertLocalEvent can end
UpsertOutcomes(v, dir, title) ==
    IF Ambiguous(v, dir, title) THEN {"ambiguous"} ELSE {"ok", "failed", "rejected"}

Idle ==
    [pc |-> "idle", id |-> NoPath, title |-> "", start |-> 0, file |-> FALSE,
     outcome |-> "none", wrote |-> FALSE, notice |-> FALSE, result |-> "none"]

\* the step taken last: for a notification, its path, the old path of a rename,
\* and whether the widget held an event for the path (the old path of a rename)
Step(op, path, old, had) == [op |-> op, path |-> path, old |-> old, had |-> had]

\* the step taken last, when it was an eventClick: the clicked event's id,
\* whether Control or Meta was held, and what the handler asked for
Click(id, modifier, opened, modal) ==
    [op |-> "eventClick", path |-> id, modifier |-> modifier,
     opened |-> opened, modal |-> modal]

-----------------------------------------------------------------------------
(* Initial state: the view constructed, nothing opened *)

AllAbsent == [p \in Paths |-> Absent]

InitVaults ==
    { [p \in Paths |-> EventDoc("S", 1)],
      [AllAbsent EXCEPT ![PathA] = ColoredDoc("T", 2, "pink"),
                        ![PathSA] = EventDoc("S", 2)] }

Init ==
    /\ vault \in InitVaults
    /\ \E c \in SettingsChoices :
          /\ settings = c.calendarSources
          /\ recursiveLocal = c.recursiveLocal
    /\ pending = {}
    /\ calendar = "null"
    /\ eventStore = EmptyStore
    /\ calendarEl = "none"
    /\ listeners = 0
    /\ view = "closed"
    /\ built = << >>
    /\ opens = 0
    /\ me = Idle
    /\ ops = 0
    /\ edits = 0
    /\ last = Step("init", NoPath, NoPath, FALSE)

-----------------------------------------------------------------------------
(* The host: documents change outside the calendar *)

\* a document is created, or its content is rewritten; the metadata cache
\* reports it later
ExternalWrite(p, doc) ==
    /\ ops < MaxOps
    /\ Cardinality(pending \cup {p}) <= MaxPending
    /\ vault[p] # doc
    /\ vault' = [vault EXCEPT ![p] = doc]
    /\ pending' = pending \cup {p}
    /\ ops' = ops + 1
    /\ last' = Step("other", NoPath, NoPath, FALSE)
    /\ UNCHANGED <<calendar, eventStore, calendarEl, listeners, view, built, opens,
                   me, edits, settings, recursiveLocal>>

\* metadataCache "changed" is delivered for a document
MetadataChanged(p) ==
    /\ p \in pending
    /\ pending' = pending \ {p}
    /\ eventStore' = ChangedBy(listeners, calendar, eventStore, vault, p)
    /\ last' = Step("changed", p, NoPath, HasEventById(eventStore, p))
    /\ UNCHANGED <<vault, calendar, calendarEl, listeners, view, built, opens, me,
                   ops, edits, settings, recursiveLocal>>

\* a document is deleted; vault "delete" is delivered at once
ExternalDelete(p) ==
    /\ ops < MaxOps
    /\ vault[p].kind # "absent"
    /\ vault' = [vault EXCEPT ![p] = Absent]
    /\ pending' = pending \ {p}
    /\ eventStore' = DeletedBy(listeners, calendar, eventStore, p)
    /\ ops' = ops + 1
    /\ last' = Step("delete", p, NoPath, HasEventById(eventStore, p))
    /\ UNCHANGED <<calendar, calendarEl, listeners, view, built, opens, me,
                   edits, settings, recursiveLocal>>

\* a document is renamed; vault "rename" is delivered at once
ExternalRename(oldPath, newPath) ==
    /\ ops < MaxOps
    /\ oldPath # newPath
    /\ vault[oldPath].kind # "absent"
    /\ vault[newPath].kind = "absent"
    /\ vault' = [vault EXCEPT ![newPath] = vault[oldPath], ![oldPath] = Absent]
    /\ pending' = IF oldPath \in pending
                  THEN (pending \ {oldPath}) \cup {newPath}
                  ELSE pending
    /\ eventStore' = RenamedBy(listeners, calendar, eventStore, vault', newPath, oldPath)
    /\ ops' = ops + 1
    /\ last' = Step("rename", newPath, oldPath, HasEventById(eventStore, oldPath))
    /\ UNCHANGED <<calendar, calendarEl, listeners, view, built, opens, me,
                   edits, settings, recursiveLocal>>

-----------------------------------------------------------------------------
(* The view: onOpen and onClose *)

\* onOpen is called; it awaits loadSettings
OnOpenCall ==
    /\ view = "closed"
    /\ opens < MaxOpens
    /\ view' = "loadSettings"
    /\ opens' = opens + 1
    /\ last' = Step("other", NoPath, NoPath, FALSE)
    /\ UNCHANGED <<vault, pending, calendar, eventStore, calendarEl, listeners,
                   built, me, ops, edits, settings, recursiveLocal>>

\* the settings are loaded; the local sources are built and awaited
OnOpenBuild ==
    /\ view = "loadSettings"
    /\ built' = BuildAll(vault, SelectLocal(settings), recursiveLocal)
    /\ view' = "build"
    /\ last' = Step("other", NoPath, NoPath, FALSE)
    /\ UNCHANGED <<vault, pending, calendar, eventStore, calendarEl, listeners,
                   opens, me, ops, edits, settings, recursiveLocal>>

\* the builds are done: the container is filled and the listeners registered
OnOpenRender ==
    /\ view = "build"
    /\ LET sources == Sources(built)
       IN IF NotSources(sources)
          THEN /\ calendarEl' = "error"
               /\ UNCHANGED <<calendar, eventStore, listeners>>
          ELSE /\ calendarEl' = "calendar"
               /\ calendar' = "Calendar"
               /\ eventStore' = renderCalendar(sources)
               /\ listeners' = listeners + 1
    /\ view' = "open"
    /\ built' = << >>
    /\ last' = Step("other", NoPath, NoPath, FALSE)
    /\ UNCHANGED <<vault, pending, opens, me, ops, edits, settings, recursiveLocal>>

\* onClose
OnClose ==
    /\ view = "open"
    /\ IF calendar # "null"
       THEN /\ calendar' = "null"
            /\ eventStore' = EmptyStore
            /\ calendarEl' = "none"
       ELSE UNCHANGED <<calendar, eventStore, calendarEl>>
    /\ view' = "closed"
    /\ last' = Step("other", NoPath, NoPath, FALSE)
    /\ UNCHANGED <<vault, pending, listeners, built, opens, me, ops, edits, settings,
                   recursiveLocal>>

-----------------------------------------------------------------------------
(* The view: modifyEvent *)

\* the widget reports a move of an event with id p to date d;
\* getFileForEvent is called and awaited
ModifyEventCall(p, d) ==
    /\ calendar # "null"
    /\ me.pc = "idle"
    /\ edits < MaxEdits
    /\ edits' = edits + 1
    /\ \E i \in 1..Len(eventStore[p]) :
          /\ d # eventStore[p][i].start
          /\ me' = [Idle EXCEPT !.pc = "getFile", !.id = p,
                                !.title = eventStore[p][i].title, !.start = d,
                                !.file = getFileForEvent(vault, p)]
    /\ last' = Step("other", NoPath, NoPath, FALSE)
    /\ UNCHANGED <<vault, pending, calendar, eventStore, calendarEl, listeners,
                   view, built, opens, ops, settings, recursiveLocal>>

\* modifyEvent as it would be without the check of the resolved file
ModifyEventNoFileWrites ==
    /\ me.pc = "getFile"
    /\ ~me.file
    /\ vault' = [vault EXCEPT ![me.id] = upsertLocalEvent(@, eventApiToFrontmatter(me))]
    /\ me' = [me EXCEPT !.pc = "upsert", !.outcome = "ok", !.wrote = TRUE]
    /\ last' = Step("other", NoPath, NoPath, FALSE)
    /\ UNCHANGED <<pending, calendar, eventStore, calendarEl, listeners,
                   view, built, opens, ops, edits, settings, recursiveLocal>>

\* no file: return false
ModifyEventNoFile ==
    /\ me.pc = "getFile"
    /\ ~me.file
    /\ me' = [me EXCEPT !.pc = "done", !.result = "false"]
    /\ last' = Step("other", NoPath, NoPath, FALSE)
    /\ UNCHANGED <<vault, pending, calendar, eventStore, calendarEl, listeners,
                   view, built, opens, ops, edits, settings, recursiveLocal>>

\* modifyEvent as it would be if it replaced the moved event in the widget itself
ModifyEventUpsertReplacing(outcome) ==
    /\ me.pc = "getFile"
    /\ me.file
    /\ outcome \in UpsertOutcomes(vault, getPathPrefix(me.id), me.title)
    /\ outcome = "ok" => Cardinality(pending \cup {me.id}) <= MaxPending
    /\ IF outcome = "ok"
       THEN /\ vault' = [vault EXCEPT ![me.id] = upsertLocalEvent(@, eventApiToFrontmatter(me))]
            /\ pending' = pending \cup {me.id}
            /\ eventStore' = AddEvent(onDelete(calendar, eventStore, me.id),
                                      [id |-> me.id, title |-> me.title,
                                       start |-> me.start, color |-> Accent])
       ELSE UNCHANGED <<vault, pending, eventStore>>
    /\ me' = [me EXCEPT !.pc = "upsert", !.outcome = outcome,
                        !.wrote = (outcome = "ok")]
    /\ last' = Step("other", NoPath, NoPath, FALSE)
    /\ UNCHANGED <<calendar, calendarEl, listeners, view, built, opens,
                   ops, edits, settings, recursiveLocal>>

\* a file: upsertLocalEvent is called and awaited
ModifyEventUpsert(outcome) ==
    /\ me.pc = "getFile"
    /\ me.file
    /\ outcome \in UpsertOutcomes(vault, getPathPrefix(me.id), me.title)
    /\ outcome = "ok" => Cardinality(pending \cup {me.id}) <= MaxPending
    /\ IF outcome = "ok"
       THEN /\ vault' = [vault EXCEPT ![me.id] = upsertLocalEvent(@, eventApiToFrontmatter(me))]
            /\ pending' = pending \cup {me.id}
       ELSE UNCHANGED <<vault, pending>>
    /\ me' = [me EXCEPT !.pc = "upsert", !.outcome = outcome,
                        !.wrote = (outcome = "ok")]
    /\ last' = Step("other", NoPath, NoPath, FALSE)
    /\ UNCHANGED <<calendar, eventStore, calendarEl, listeners, view, built, opens,
                   ops, edits, settings, recursiveLocal>>

\* modifyEvent as it would be if it showed no notice
ModifyEventReturnSilent ==
    /\ me.pc = "upsert"
    /\ IF me.outcome = "rejected"
       THEN me' = [me EXCEPT !.pc = "threw"]
       ELSE me' = [me EXCEPT !.pc = "done",
                             !.result = IF me.outcome = "ok" THEN "true" ELSE "false"]
    /\ last' = Step("other", NoPath, NoPath, FALSE)
    /\ UNCHANGED <<vault, pending, calendar, eventStore, calendarEl, listeners,
                   view, built, opens, ops, edits, settings, recursiveLocal>>

\* modifyEvent as it would be if it returned true whatever the write reported
ModifyEventReturnTrue ==
    /\ me.pc = "upsert"
    /\ IF me.outcome = "rejected"
       THEN me' = [me EXCEPT !.pc = "threw"]
       ELSE me' = [me EXCEPT !.pc = "done", !.notice = me.outcome # "ok",
                             !.result = "true"]
    /\ last' = Step("other", NoPath, NoPath, FALSE)
    /\ UNCHANGED <<vault, pending, calendar, eventStore, calendarEl, listeners,
                   view, built, opens, ops, edits, settings, recursiveLocal>>

\* upsertLocalEvent has settled: notice on failure, return success
ModifyEventReturn ==
    /\ me.pc = "upsert"
    /\ IF me.outcome = "rejected"
       THEN me' = [me EXCEPT !.pc = "threw"]
       ELSE LET success == me.outcome = "ok"
            IN me' = [me EXCEPT !.pc = "done",
                                !.notice = ~success,
                                !.result = IF success THEN "true" ELSE "false"]
    /\ last' = Step("other", NoPath, NoPath, FALSE)
    /\ UNCHANGED <<vault, pending, calendar, eventStore, calendarEl, listeners,
                   view, built, opens, ops, edits, settings, recursiveLocal>>

\* the widget has taken the result
ModifyEventDone ==
    /\ me.pc \in {"done", "threw"}
    /\ me' = Idle
    /\ last' = Step("other", NoPath, NoPath, FALSE)
    /\ UNCHANGED <<vault, pending, calendar, eventStore, calendarEl, listeners,
                   view, built, opens, ops, edits, settings, recursiveLocal>>

-----------------------------------------------------------------------------
(* The view: eventClick *)

\* eventClick as it would be if it opened the edit dialog whatever the keys
EventClickModal(p, modifier) ==
    /\ calendar # "null"
    /\ HasEventById(eventStore, p)
    /\ edits < MaxEdits
    /\ edits' = edits + 1
    /\ last' = Click(p, modifier, modifier /\ vault[p].kind # "absent", TRUE)
    /\ UNCHANGED <<vault, pending, calendar, eventStore, calendarEl, listeners,
                   view, built, opens, me, ops, settings, recursiveLocal>>

\* the user clicks the widget's event with id p; modifier: Control or Meta held.
\* With a modifier the document is opened in the most recent leaf if the id
\* resolves to a file, else the edit dialog is opened
EventClick(p, modifier) ==
    /\ calendar # "null"
    /\ HasEventById(eventStore, p)
    /\ edits < MaxEdits
    /\ edits' = edits + 1
    /\ IF modifier
       THEN LET file == vault[p].kind # "absent"
            IN last' = Click(p, TRUE, file, FALSE)
       ELSE last' = Click(p, FALSE, FALSE, TRUE)
    /\ UNCHANGED <<vault, pending, calendar, eventStore, calendarEl, listeners,
                   view, built, opens, me, ops, settings, recursiveLocal>>

-----------------------------------------------------------------------------

Next ==
    \/ \E p \in Paths, doc \in WrittenDocs : ExternalWrite(p, doc)
    \/ \E p \in Paths : MetadataChanged(p)
    \/ \E p \in Paths : ExternalDelete(p)
    \/ \E a \in Paths, b \in Paths : ExternalRename(a, b)
    \/ OnOpenCall
    \/ OnOpenBuild
    \/ OnOpenRender
    \/ OnClose
    \/ \E p \in Paths, d \in Dates : ModifyEventCall(p, d)
    \/ ModifyEventNoFile
    \/ \E o \in {"ok", "ambiguous", "failed", "rejected"} : ModifyEventUpsert(o)
    \/ ModifyEventReturn
    \/ ModifyEventDone
    \/ \E p \in ClickPaths, m \in BOOLEAN : EventClick(p, m)

Spec == Init /\ [][Next]_vars

-----------------------------------------------------------------------------
(* Properties *)

Notification == {"changed", "delete", "rename"}

\* the directories of the configured Local sources
LocalDirectories == {settings[i].directory : i \in {j \in 1..Len(settings) : settings[j].type = "local"}}

\* p lies in the directory subtree of some Local source
InsideSomeSource(p) == \E d \in LocalDirectories : StartsWith(p, d \o <<Slash>>)

\* the widget shows the decoded record of the document at p, once
ShowsFreshDecode(p) ==
    /\ Len(eventStore[p]) = 1
    /\ eventStore[p][1].title = getEventInputFromFile(vault, p).title
    /\ eventStore[p][1].start = getEventInputFromFile(vault, p).start

\* C1: after any sequence of changed, delete and rename notifications the
\* widget holds at most one event per id.
C1_SingleIdentity ==
    last.op \in Notification => \A p \in Paths : Len(eventStore[p]) <= 1

\* C2: after a rename whose old path held an event and whose document still
\* decodes to an event, the widget holds no event with the old id and exactly
\* one with the new id, showing a fresh decode of the document. Stated for the
\* renames whose new path lies inside the directory of a Local source.
C2_RenameDestroyRecreate ==
    ( /\ last.op = "rename"
      /\ last.had
      /\ calendar # "null"
      /\ getEventInputFromFile(vault, last.path) # Null
      /\ InsideSomeSource(last.path) )
    => /\ eventStore[last.old] = << >>
       /\ ShowsFreshDecode(last.path)

\* C3 as claimed: after a changed notification for a document that does not
\* decode to an event, the widget holds no event for it.
C3_RemovedOnDecodeFailure ==
    ( /\ last.op = "changed"
      /\ getEventInputFromFile(vault, last.path) = Null )
    => eventStore[last.path] = << >>

\* C3 as amended: a changed notification for a document that does not decode
\* to an event leaves the widget's events as they were; an event present for
\* the path stays.
C3_KeptOnDecodeFailure ==
    [][ ( /\ last'.op = "changed"
          /\ getEventInputFromFile(vault', last'.path) = Null )
        => eventStore' = eventStore ]_vars

C3_Witness ==
    /\ last.op = "changed"
    /\ last.had
    /\ listeners > 0
    /\ calendar # "null"
    /\ getEventInputFromFile(vault, last.path) = Null
    /\ eventStore[last.path] # << >>

\* C4: once onOpen has run with a Local source whose directory is no folder,
\* the container shows the error message and no widget exists.
C4_MissingDirectoryDisplay ==
    ( /\ view = "open"
      /\ \E d \in LocalDirectories : d \notin Folders )
    => /\ calendarEl = "error"
       /\ calendar = "null"

\* C5: a changed or rename notification for a document outside the directory
\* of every Local source leaves the widget without an event for it.
C5_DirectoryScope ==
    ( /\ last.op \in {"changed", "rename"}
      /\ ~InsideSomeSource(last.path) )
    => eventStore[last.path] = << >>

\* C6: the steps of a modifyEvent whose write-back is refused as ambiguous
\* write no document and leave the widget's events alone; it shows the notice
\* and returns false.
C6_AmbiguityHardStop ==
    [][ ( /\ me' # me
          /\ me'.outcome = "ambiguous" )
        => /\ vault' = vault
           /\ eventStore' = eventStore
           /\ calendar' = calendar
           /\ ~me'.wrote
           /\ me'.pc \in {"upsert", "done"}
           /\ me'.pc = "done" => (me'.notice /\ me'.result = "false") ]_vars

C6_Witness ==
    /\ me.pc = "done"
    /\ me.outcome = "ambiguous"
    /\ me.notice
    /\ me.result = "false"

\* C7: modifyEvent returns true only after a successful write for the event's
\* id, and returns false when the write reports failure.
C7_SuccessAfterWrite ==
    /\ me.result = "true" => (me.wrote /\ me.outcome = "ok" /\ me.pc = "done")
    /\ (me.pc = "done" /\ me.outcome \in {"failed", "ambiguous"}) => me.result = "false"

C7_Witness ==
    /\ me.pc = "done"
    /\ me.result = "true"
    /\ me.wrote
    /\ vault[me.id] = eventApiToFrontmatter(me)

\* C8: when no backing document is resolved, modifyEvent returns false,
\* upsertLocalEvent is not called, and the widget's events are left alone.
C8_NotFoundAborts ==
    [][ ( /\ me.pc = "getFile"
          /\ ~me.file
          /\ me' # me )
        => /\ me'.pc = "done"
           /\ me'.result = "false"
           /\ me'.outcome = "none"
           /\ ~me'.wrote
           /\ vault' = vault
           /\ pending' = pending
           /\ eventStore' = eventStore
           /\ calendar' = calendar ]_vars

C8_Witness ==
    /\ me.pc = "done"
    /\ ~me.file
    /\ me.result = "false"
    /\ vault[me.id] = Absent

\* C9: a modifyEvent whose write failed ends by returning false; it never
\* ends with an exception.
C9_WriteFailureReported ==
    ( /\ me.pc \in {"done", "threw"}
      /\ me.outcome \in {"failed", "rejected"} )
    => /\ me.pc = "done"
       /\ me.result = "false"

\* C10: once onClose has completed, the widget is released and no listener
\* registered by onOpen is attached; no listener is ever attached twice.
C10_Teardown ==
    /\ ( /\ view = "closed"
         /\ opens > 0 )
       => /\ calendar = "null"
          /\ listeners = 0
    /\ listeners <= 1

\* C11: a delete notification for path p leaves the widget without an event
\* with id p, changes nothing when there was none, and leaves the events of
\* every other id as they were.
C11_ExternalDelete ==
    [][ last'.op = "delete"
        => /\ eventStore'[last'.path] = << >>
           /\ ~last'.had => eventStore' = eventStore
           /\ \A q \in Paths \ {last'.path} : eventStore'[q] = eventStore[q] ]_vars

\* C12: after a changed notification for a document that decodes to an event
\* and lies inside the directory of a Local source, the widget holds for its
\* path the fresh decode and nothing of what it showed before.
C12_ChangedUpdate ==
    ( /\ last.op = "changed"
      /\ calendar # "null"
      /\ getEventInputFromFile(vault, last.path) # Null
      /\ InsideSomeSource(last.path) )
    => ShowsFreshDecode(last.path)

\* C13: no step of modifyEvent, whatever its outcome, changes the widget's
\* events; the events change only in a notification handler or when the view
\* is opened or closed.
C13_WriteBackLeavesModel ==
    [][ /\ me' # me => (eventStore' = eventStore /\ calendar' = calendar)
        /\ eventStore' # eventStore => (last'.op \in Notification \/ view' # view) ]_vars

C13_Witness ==
    /\ me.pc = "done"
    /\ me.result = "true"
    /\ vault[me.id] = eventApiToFrontmatter(me)
    /\ me.id \in pending
    /\ eventStore[me.id] # << >>
    /\ eventStore[me.id][1].start # me.start

\* C15: whenever modifyEvent issues the write (calls upsertLocalEvent), the
\* document that getFileForEvent resolved for the event's id still exists.
C15_WriteTargetExists ==
    [][ ( /\ me.pc = "getFile"
          /\ me'.pc = "upsert" )
        => vault[me.id].kind # "absent" ]_vars

\* p is a document the source build enumerates for some Local source
Enumerated(p) == \E d \in LocalDirectories : InDirectory(p, d, recursiveLocal)

\* the events the store holds for p are those of the document at p in v:
\* none when the build would give none, else only fresh decodes
MatchesDocument(store, v, p) ==
    IF getEventInputFromFile(v, p) = Null \/ ~Enumerated(p)
    THEN store[p] = << >>
    ELSE /\ store[p] # << >>
         /\ \A i \in 1..Len(store[p]) :
               /\ store[p][i].title = getEventInputFromFile(v, p).title
               /\ store[p][i].start = getEventInputFromFile(v, p).start

\* C16: when onOpen completes with a widget, the widget's events match the
\* documents as they are at that moment, for every document whose "changed"
\* notification is not still due.
C16_NoLostChangeAtOpen ==
    [][ ( /\ view = "build"
          /\ view' = "open"
          /\ calendar' # "null" )
        => \A p \in Paths \ pending' : MatchesDocument(eventStore', vault', p) ]_vars

\* C17: the event collections onOpen hands to the widget hold each document
\* path as an id at most once across all sources.
C17_SingleIdentityAtOpen ==
    view = "build" => \A p \in Paths : Len(EventsAt(Sources(built), p)) <= 1

\* C18: with recursiveLocal off, a changed or rename notification for a
\* document in a strict subdirectory of a Local source's directory, which the
\* source build does not enumerate, leaves the widget without an event for it.
C18_RecursionToggle ==
    ( /\ last.op \in {"changed", "rename"}
      /\ ~recursiveLocal
      /\ InsideSomeSource(last.path)
      /\ ~Enumerated(last.path) )
    => eventStore[last.path] = << >>

\* the Local sources that onCacheUpdate's find accepts for path p, by position
Matching(p) ==
    {i \in 1..Len(settings) :
        settings[i].type = "local" /\ StartsWith(p, settings[i].directory)}

\* the color the claim gives an event decoded as r from the document at p
ResolvedColor(r, p) ==
    LET first == CHOOSE i \in Matching(p) : \A j \in Matching(p) : i <= j
    IN IF r.color # "" THEN r.color
       ELSE IF settings[first].color # "" THEN settings[first].color
       ELSE Accent

\* C19: the event a changed notification adds has the color of its decoded
\* record when the record carries one, else the color of the first Local
\* source, in configuration order, that matches the path when that source has
\* one, else the theme accent.
C19_ColorResolution ==
    ( /\ last.op = "changed"
      /\ calendar # "null"
      /\ getEventInputFromFile(vault, last.path) # Null
      /\ Matching(last.path) # {} )
    => /\ eventStore[last.path] # << >>
       /\ eventStore[last.path][Len(eventStore[last.path])].color
            = ResolvedColor(getEventInputFromFile(vault, last.path), last.path)

C19_Witness ==
    /\ last.op = "changed"
    /\ calendar # "null"
    /\ getEventInputFromFile(vault, last.path) # Null
    /\ getEventInputFromFile(vault, last.path).color = "pink"
    /\ FindCalendar(settings, last.path).color = "red"
    /\ eventStore[last.path][Len(eventStore[last.path])].color = "pink"

\* C20: an eventClick with Control or Meta held opens no edit dialog and asks
\* the host to open the document exactly when the event's id resolves to a
\* file; without a modifier it opens the edit dialog and no document; in both
\* cases the widget's events stay as they were.
C20_OpenTransition ==
    [][ last'.op = "eventClick"
        => /\ last'.modifier
                => /\ ~last'.modal
                   /\ last'.opened <=> vault[last'.path].kind # "absent"
           /\ ~last'.modifier => (last'.modal /\ ~last'.opened)
           /\ eventStore' = eventStore
           /\ calendar' = calendar
           /\ vault' = vault ]_vars

C20_Witness ==
    /\ last.op = "eventClick"
    /\ last.modifier
    /\ ~last.opened
    /\ ~last.modal
    /\ vault[last.path] = Absent
    /\ eventStore[last.path] # << >>

====
